---- MODULE Spec2Model ----
(***************************************************************************)
(* next-seo-lite: the metadata builder (src/src/metadata.ts), the         *)
(* Schema.org builders (schemas) and the JSON-LD utilities                 *)
(* (src/src/jsonld.ts).                                                    *)
(*                                                                         *)
(* A JavaScript string is a sequence of one-character strings, so that     *)
(* the regular-expression replaces, startsWith and the template literals   *)
(* of the source are computed and not assumed.  An optional value          *)
(* (a field that may be undefined) is None or Some(v).                     *)
(***************************************************************************)
EXTENDS Integers, Sequences, FiniteSets, TLC

VARIABLES
    globalConfig,   \* the SEOConfig record the caller holds
    pageProps,      \* the SEOProps record the caller holds
    seo,            \* the function returned by createSEOConfig: None, or Some(config it closed over)
    lastCall,       \* None, or Some([props, config]) the arguments of the last buildMetadata call
    outcome,        \* "none" (no call yet), "returned" or "threw"
    metadata,       \* None, or Some(Metadata) returned by the last call
    schemaProps,    \* None, or Some([kind, props]) the schema props record the caller holds
    schema,         \* None, or Some(JSON-LD object) returned by the last schema builder call
    jsonLdData,     \* None, or Some(JSON value) the payload the caller holds for the JSON-LD utilities
    scriptTag,      \* None, or Some(string) returned by the last jsonLdScript call
    element         \* None, or Some(React element) returned by the last JsonLd call

vars == <<globalConfig, pageProps, seo, lastCall, outcome, metadata, schemaProps, schema,
          jsonLdData, scriptTag, element>>

(***************************************************************************)
(* Bounds of the input space                                               *)
(***************************************************************************)
MaxUrlLen == 4      \* longest base URL
MaxPathLen == 2     \* longest page path
MaxKeywords == 2    \* longest keyword list
MaxJsonLen == 2     \* longest string in a JSON-LD payload

(***************************************************************************)
(* Optional values and strings                                             *)
(***************************************************************************)
None == <<>>
Some(v) == <<v>>
Opt(S) == {None} \cup {Some(v) : v \in S}

\* all strings over an alphabet, up to a length
StrOver(alphabet, n) == UNION {[1..k -> alphabet] : k \in 0..n}

\* equality in place of the prefix test
startsWithExact(s, prefix) == s = prefix

\* String.prototype.startsWith
startsWith(s, prefix) ==
    /\ Len(s) >= Len(prefix)
    /\ SubSeq(s, 1, Len(prefix)) = prefix

\* s.replace(/\/$/, "")
StripTrailingSlash(s) ==
    IF Len(s) > 0 /\ s[Len(s)] = "/" THEN SubSeq(s, 1, Len(s) - 1) ELSE s

\* s.replace(/^\//, "")
StripLeadingSlash(s) ==
    IF Len(s) > 0 /\ s[1] = "/" THEN SubSeq(s, 2, Len(s)) ELSE s

\* JavaScript truthiness of an optional string: defined and not ""
Truthy(o) == o # None /\ o[1] # <<>>

\* a ?? b
Coalesce(a, b) == IF a # None THEN a ELSE b

(***************************************************************************)
(* new URL(input), the WHATWG parser without a base URL, for the input     *)
(* alphabet of UrlChars: a scheme other than the special ones (http,       *)
(* https, ws, wss, ftp, file) is followed by an opaque path, a path or an  *)
(* authority.                                                              *)
(***************************************************************************)
AsciiAlpha == {"a"}
SchemeChars == AsciiAlpha \cup {"+", "-", "."}

\* the position of the ":" that ends the scheme, 0 when the input has no scheme
SchemeEnd(input) ==
    IF \E i \in 1..Len(input) : input[i] = ":"
    THEN LET i == CHOOSE k \in 1..Len(input) :
                      /\ input[k] = ":"
                      /\ \A j \in 1..(k - 1) : input[j] # ":"
         IN IF /\ i > 1
               /\ input[1] \in AsciiAlpha
               /\ \A j \in 2..(i - 1) : input[j] \in SchemeChars
            THEN i
            ELSE 0
    ELSE 0

\* the authority of "scheme://authority/...": the text up to the next "/"
AuthorityOf(rest) ==
    LET after == SubSeq(rest, 3, Len(rest))
        stops == {k \in 1..Len(after) : after[k] = "/"}
        stop == IF stops = {} THEN Len(after) + 1
                ELSE CHOOSE k \in stops : \A j \in stops : k <= j
    IN SubSeq(after, 1, stop - 1)

\* host state and port state: an empty host before ":" and a port that is
\* not made of digits are failures
AuthorityParses(authority) ==
    LET colons == {k \in 1..Len(authority) : authority[k] = ":"}
    IN IF colons = {} THEN TRUE
       ELSE LET c == CHOOSE k \in colons : \A j \in colons : k <= j
            IN /\ c > 1
               /\ \A j \in (c + 1)..Len(authority) :
                      authority[j] \in {"0", "1", "2", "3", "4", "5", "6", "7", "8", "9"}

\* TRUE iff new URL(input) returns, FALSE iff it throws TypeError (Invalid URL)
URLParses(input) ==
    LET e == SchemeEnd(input)
    IN /\ e > 0
       /\ LET rest == SubSeq(input, e + 1, Len(input))
          IN startsWith(rest, <<"/", "/">>) => AuthorityParses(AuthorityOf(rest))

(***************************************************************************)
(* buildMetadata: the resolved values                                      *)
(***************************************************************************)
\* props.siteName || config.siteName
siteNameOrFallback(props, config) ==
    IF Truthy(props.siteName) THEN props.siteName ELSE config.siteName

siteName(props, config) ==
    IF props.siteName # None THEN props.siteName ELSE config.siteName

baseUrl(props, config) == Coalesce(props.baseUrl, config.baseUrl)

\* props.image ?? props.defaultImage ?? config.defaultImage
imageWithPageDefault(props, config) ==
    Coalesce(props.image, Coalesce(props.defaultImage, config.defaultImage))

image(props, config) == Coalesce(props.image, config.defaultImage)

\* the separator fixed to "|"
separatorFixed(config) == <<"|">>

separator(config) ==
    IF config.titleSeparator # None THEN config.titleSeparator[1] ELSE <<"|">>

\* props.locale || config.locale
localeOrFallback(props, config) ==
    IF Truthy(props.locale) THEN props.locale ELSE config.locale

locale(props, config) == Coalesce(props.locale, config.locale)

\* props.author || config.author
authorOrFallback(props, config) == IF Truthy(props.author) THEN props.author ELSE config.author

author(props, config) == Coalesce(props.author, config.author)

\* config.publisher || siteName
publisherOrFallback(props, config) ==
    IF Truthy(config.publisher) THEN config.publisher ELSE siteName(props, config)

publisher(props, config) == Coalesce(config.publisher, siteName(props, config))

\* [...(config.keywords ?? []), ...(props.keywords ?? [])]
keywords(props, config) ==
    (IF config.keywords # None THEN config.keywords[1] ELSE <<>>)
        \o (IF props.keywords # None THEN props.keywords[1] ELSE <<>>)

\* duplicates removed keeping the last occurrence instead of the first
RECURSIVE SetOrderKeepLast(_)
SetOrderKeepLast(list) ==
    IF list = <<>> THEN <<>>
    ELSE LET rest == Tail(list)
         IN IF \E i \in 1..Len(rest) : rest[i] = Head(list)
            THEN SetOrderKeepLast(rest)
            ELSE <<Head(list)>> \o SetOrderKeepLast(rest)

\* [...new Set(list)]: a Set keeps its elements in insertion order
RECURSIVE SetOrder(_)
SetOrder(list) ==
    IF list = <<>> THEN <<>>
    ELSE LET front == SubSeq(list, 1, Len(list) - 1)
             last == list[Len(list)]
         IN IF \E i \in 1..Len(front) : front[i] = last
            THEN SetOrder(front)
            ELSE Append(SetOrder(front), last)

uniqueKeywords(props, config) == SetOrder(keywords(props, config))

fullTitle(props, config) ==
    LET name == siteName(props, config)
    IN IF name # None /\ name[1] # <<>>
       THEN props.title \o <<" ">> \o separator(config) \o <<" ">> \o name[1]
       ELSE props.title

normalizedBase(props, config) ==
    LET base == baseUrl(props, config)
    IN IF Truthy(base) THEN Some(StripTrailingSlash(base[1])) ELSE None

\* a canonical made of the page path alone when no base URL resolves
canonicalWithoutBase(props, config) ==
    LET normalized == IF Truthy(props.path) THEN StripLeadingSlash(props.path[1]) ELSE <<>>
        slug == IF normalized # <<>> THEN <<"/">> \o normalized ELSE <<>>
    IN IF Truthy(baseUrl(props, config))
       THEN Some(StripTrailingSlash(baseUrl(props, config)[1]) \o slug)
       ELSE Some(slug)

\* the slug appended without the test for an empty path
canonicalAlwaysSlash(props, config) ==
    LET base == baseUrl(props, config)
    IN IF Truthy(base)
       THEN LET normalized == IF Truthy(props.path)
                              THEN StripLeadingSlash(props.path[1])
                              ELSE <<>>
            IN Some(StripTrailingSlash(base[1]) \o <<"/">> \o normalized)
       ELSE None

canonical(props, config) ==
    LET base == baseUrl(props, config)
    IN IF Truthy(base)
       THEN LET normalized == IF Truthy(props.path)
                              THEN StripLeadingSlash(props.path[1])
                              ELSE <<>>
                slug == IF normalized # <<>> THEN <<"/">> \o normalized ELSE <<>>
            IN Some(normalizedBase(props, config)[1] \o slug)
       ELSE None

imageAlt(props, config) ==
    IF props.imageAlt # None
    THEN props.imageAlt[1]
    ELSE IF Truthy(siteName(props, config))
         THEN props.title \o <<" ", "-", " ">> \o siteName(props, config)[1]
         ELSE props.title

\* props.imageWidth || 1200
imageWidthOrDefault(props) ==
    IF props.imageWidth # None /\ props.imageWidth[1] # 0 THEN props.imageWidth[1] ELSE 1200

imageWidth(props) == IF props.imageWidth # None THEN props.imageWidth[1] ELSE 1200

imageHeight(props) == IF props.imageHeight # None THEN props.imageHeight[1] ELSE 630

ogImages(props, config) ==
    IF Truthy(image(props, config))
    THEN << [url |-> image(props, config)[1],
             width |-> imageWidth(props),
             height |-> imageHeight(props),
             alt |-> imageAlt(props, config)] >>
    ELSE <<>>

\* the card of the earlier builder: always the large image
twitterCardAlwaysLarge(props, config) == "summary_large_image"

twitterCard(props, config) ==
    IF Truthy(image(props, config))
    THEN "summary_large_image"
    ELSE "summary"

twitterImages(props, config) ==
    IF Truthy(image(props, config)) THEN <<image(props, config)[1]>> ELSE <<>>

\* the global prefixes applied to the page path without a base URL
languagesWithoutBase(props, config) ==
    LET base == normalizedBase(props, config)
        prefix == IF Truthy(base) THEN base[1] ELSE <<>>
    IN IF props.alternates # None
       THEN Some([loc \in DOMAIN props.alternates[1] |->
                    LET urlOrPath == props.alternates[1][loc]
                    IN IF startsWith(urlOrPath, <<"h", "t", "t", "p">>)
                       THEN urlOrPath
                       ELSE prefix \o urlOrPath])
       ELSE IF config.alternateLocales # None /\ Truthy(props.path)
            THEN Some([loc \in DOMAIN config.alternateLocales[1] |->
                         LET pagePath == StripLeadingSlash(props.path[1])
                         IN prefix \o config.alternateLocales[1][loc]
                              \o (IF pagePath # <<>> THEN <<"/">> \o pagePath ELSE <<>>)])
            ELSE None

\* a Record<string, string> is a function from its keys to its values
languages(props, config) ==
    LET base == normalizedBase(props, config)
    IN IF props.alternates # None
       THEN Some([loc \in DOMAIN props.alternates[1] |->
                    LET urlOrPath == props.alternates[1][loc]
                    IN IF startsWith(urlOrPath, <<"h", "t", "t", "p">>)
                       THEN urlOrPath
                       ELSE IF Truthy(base)
                            THEN base[1] \o urlOrPath
                            ELSE urlOrPath])
       ELSE IF config.alternateLocales # None /\ Truthy(base) /\ Truthy(props.path)
            THEN Some([loc \in DOMAIN config.alternateLocales[1] |->
                         LET pagePath == StripLeadingSlash(props.path[1])
                         IN base[1] \o config.alternateLocales[1][loc]
                              \o (IF pagePath # <<>> THEN <<"/">> \o pagePath ELSE <<>>)])
            ELSE None

\* the permissive block unless noIndex is given as false
robotsUnlessFalse(props) ==
    IF props.noIndex # Some(FALSE)
    THEN [index |-> FALSE, follow |-> FALSE, googleBot |-> None]
    ELSE [index |-> TRUE,
          follow |-> TRUE,
          googleBot |-> Some([index |-> TRUE,
                              follow |-> TRUE,
                              maxVideoPreview |-> -1,
                              maxImagePreview |-> "large",
                              maxSnippet |-> -1])]

\* googleBot's keys max-video-preview, max-image-preview and max-snippet are
\* the fields maxVideoPreview, maxImagePreview and maxSnippet
robots(props) ==
    IF props.noIndex = Some(TRUE)
    THEN [index |-> FALSE, follow |-> FALSE, googleBot |-> None]
    ELSE [index |-> TRUE,
          follow |-> TRUE,
          googleBot |-> Some([index |-> TRUE,
                              follow |-> TRUE,
                              maxVideoPreview |-> -1,
                              maxImagePreview |-> "large",
                              maxSnippet |-> -1])]

\* props.type || "website"
ogTypeOrDefault(props) == IF Truthy(props.type) THEN props.type[1] ELSE <<"w", "e", "b", "s", "i", "t", "e">>

ogType(props) == IF props.type # None THEN props.type[1] ELSE <<"w", "e", "b", "s", "i", "t", "e">>

(***************************************************************************)
(* buildMetadata: the assembled Metadata.  A key that the object spread    *)
(* leaves out is None.  metadataBase is the URL object built from the      *)
(* string it records.                                                      *)
(***************************************************************************)
Opt1(cond, v) == IF cond THEN Some(v) ELSE None

\* the canonical key written whenever a base URL resolves, empty or not
alternatesBlockAnyCanonical(props, config) ==
    LET block == [canonical |-> canonical(props, config),
                  languages |-> languages(props, config)]
    IN IF block.canonical = None /\ block.languages = None
       THEN None
       ELSE Some(block)

alternatesBlock(props, config) ==
    LET block == [canonical |-> Opt1(Truthy(canonical(props, config)), canonical(props, config)[1]),
                  languages |-> languages(props, config)]
    IN \* clean up empty alternates: delete metadata.alternates
       IF ~Truthy(block.canonical) /\ block.languages = None
       THEN None
       ELSE Some(block)

assemble(props, config) ==
    [title |-> fullTitle(props, config),
     description |-> props.description,
     keywords |-> Opt1(Len(uniqueKeywords(props, config)) > 0, uniqueKeywords(props, config)),
     authors |-> Opt1(Truthy(author(props, config)), <<[name |-> author(props, config)[1]]>>),
     creator |-> Opt1(Truthy(author(props, config)), author(props, config)[1]),
     publisher |-> Opt1(Truthy(publisher(props, config)), publisher(props, config)[1]),
     robots |-> robots(props),
     metadataBase |-> Opt1(Truthy(normalizedBase(props, config)),
                           [input |-> normalizedBase(props, config)[1]]),
     openGraph |->
        [title |-> fullTitle(props, config),
         description |-> props.description,
         images |-> Opt1(Len(ogImages(props, config)) > 0, ogImages(props, config)),
         type |-> ogType(props),
         siteName |-> Opt1(Truthy(siteName(props, config)), siteName(props, config)[1]),
         url |-> Opt1(Truthy(canonical(props, config)), canonical(props, config)[1]),
         locale |-> Opt1(Truthy(locale(props, config)), locale(props, config)[1])],
     twitter |->
        [card |-> twitterCard(props, config),
         title |-> fullTitle(props, config),
         description |-> props.description,
         images |-> Opt1(Len(twitterImages(props, config)) > 0, twitterImages(props, config)),
         creator |-> Opt1(Truthy(config.twitterHandle), config.twitterHandle[1]),
         site |-> Opt1(Truthy(config.twitterHandle), config.twitterHandle[1])],
     alternates |-> alternatesBlock(props, config),
     \* the literal has no "other" key and nothing reads props.structuredData
     other |-> None]

\* new URL(normalizedBase) at the metadataBase key throws on an invalid URL
newURLThrows(props, config) ==
    /\ Truthy(normalizedBase(props, config))
    /\ ~URLParses(normalizedBase(props, config)[1])

buildMetadata(props, config) ==
    IF newURLThrows(props, config)
    THEN [status |-> "threw", error |-> "TypeError"]
    ELSE [status |-> "returned", value |-> assemble(props, config)]

(***************************************************************************)
(* The schema builders.  Each returns one object literal; "@context" and   *)
(* "@type" are the fields context and type.  A key that the object spread  *)
(* leaves out is None.                                                     *)
(***************************************************************************)
\* a number in a && test: 0 is falsy
TruthyNumber(o) == o # None /\ o[1] # 0

\* a list tested for presence only
TruthyListDefined(o) == o # None

\* list?.length in a && test: an absent or empty list is falsy
TruthyList(o) == o # None /\ Len(o[1]) > 0

\* a natural number inside a template literal
Digits == <<"0", "1", "2", "3", "4", "5", "6", "7", "8", "9">>
RECURSIVE NumberToString(_)
NumberToString(n) ==
    IF n < 10
    THEN <<Digits[n + 1]>>
    ELSE NumberToString(n \div 10) \o <<Digits[(n % 10) + 1]>>

personSchema(props) ==
    [context |-> "https://schema.org",
     type |-> "Person",
     name |-> props.name,
     url |-> props.url,
     jobTitle |-> Opt1(Truthy(props.jobTitle), props.jobTitle[1]),
     description |-> Opt1(Truthy(props.description), props.description[1]),
     email |-> Opt1(Truthy(props.email), props.email[1]),
     image |-> Opt1(Truthy(props.image), props.image[1]),
     sameAs |-> Opt1(TruthyList(props.sameAs), props.sameAs[1]),
     knowsAbout |-> Opt1(TruthyList(props.knowsAbout), props.knowsAbout[1]),
     address |-> Opt1(Truthy(props.location), [type |-> "Place", name |-> props.location[1]]),
     worksFor |-> Opt1(props.worksFor # None,
                       [type |-> "Organization",
                        name |-> props.worksFor[1].name,
                        url |-> Opt1(Truthy(props.worksFor[1].url), props.worksFor[1].url[1])])]

\* props.type || "BlogPosting"
articleTypeOrDefault(props) ==
    IF Truthy(props.type)
    THEN props.type[1]
    ELSE <<"B", "l", "o", "g", "P", "o", "s", "t", "i", "n", "g">>

\* "@type": props.type ?? "BlogPosting"
articleType(props) ==
    Coalesce(props.type, Some(<<"B", "l", "o", "g", "P", "o", "s", "t", "i", "n", "g">>))[1]

\* the author key of articleSchema
articleAuthor(props) ==
    [type |-> "Person",
     name |-> props.authorName,
     url |-> Opt1(Truthy(props.authorUrl), props.authorUrl[1])]

\* a publisher record written for a logo alone as well
articlePublisherForLogo(props) ==
    Opt1(Truthy(props.publisherName) \/ Truthy(props.publisherLogo),
         [type |-> "Organization",
          name |-> IF props.publisherName # None THEN props.publisherName[1] ELSE <<>>,
          logo |-> Opt1(Truthy(props.publisherLogo), props.publisherLogo[1])])

\* the publisher key of articleSchema
articlePublisher(props) ==
    Opt1(Truthy(props.publisherName),
         [type |-> "Organization",
          name |-> props.publisherName[1],
          logo |-> Opt1(Truthy(props.publisherLogo), props.publisherLogo[1])])

articleSchema(props) ==
    [context |-> "https://schema.org",
     type |-> articleType(props),
     headline |-> props.headline,
     description |-> props.description,
     url |-> props.url,
     mainEntityOfPage |-> props.url,
     image |-> Opt1(Truthy(props.image), props.image[1]),
     datePublished |-> props.datePublished,
     dateModified |-> Opt1(Truthy(props.dateModified), props.dateModified[1]),
     author |-> articleAuthor(props),
     publisher |-> articlePublisher(props),
     wordCount |-> Opt1(TruthyNumber(props.wordCount), props.wordCount[1]),
     timeRequired |-> Opt1(TruthyNumber(props.readingTime),
                           <<"P", "T">> \o NumberToString(props.readingTime[1]) \o <<"M">>),
     keywords |-> Opt1(TruthyList(props.keywords), props.keywords[1]),
     articleSection |-> Opt1(Truthy(props.articleSection), props.articleSection[1])]

organizationSchema(props) ==
    [context |-> "https://schema.org",
     type |-> "Organization",
     name |-> props.name,
     url |-> props.url,
     logo |-> Opt1(Truthy(props.logo), props.logo[1]),
     description |-> Opt1(Truthy(props.description), props.description[1]),
     sameAs |-> Opt1(TruthyList(props.sameAs), props.sameAs[1]),
     email |-> Opt1(Truthy(props.email), props.email[1]),
     telephone |-> Opt1(Truthy(props.telephone), props.telephone[1])]

(***************************************************************************)
(* JSON-LD utilities.  A JSON value is a tagged record: a string holds its *)
(* characters, a number a natural, an array its elements, an object the    *)
(* sequence of its [key, value] entries in insertion order.                *)
(***************************************************************************)
JsonString(chars) == [t |-> "string", chars |-> chars]
JsonNumber(n) == [t |-> "number", n |-> n]
JsonBoolean(b) == [t |-> "boolean", b |-> b]
JsonNull == [t |-> "null"]
JsonArray(elements) == [t |-> "array", elements |-> elements]
JsonObject(entries) == [t |-> "object", entries |-> entries]

\* one character of a string inside the quotes
EscapeChar(c) ==
    IF c = "\"" THEN <<"\\", "\"">>
    ELSE IF c = "\\" THEN <<"\\", "\\">>
    ELSE <<c>>

RECURSIVE EscapeAll(_)
EscapeAll(chars) ==
    IF chars = <<>> THEN <<>> ELSE EscapeChar(Head(chars)) \o EscapeAll(Tail(chars))

\* the characters between quotes, written as they are
QuoteRaw(chars) == <<"\"">> \o chars \o <<"\"">>

\* JSON.stringify of a string
Quote(chars) == <<"\"">> \o EscapeAll(chars) \o <<"\"">>

\* JSON.stringify(value), without indentation
RECURSIVE JSONStringify(_)
RECURSIVE StringifyElements(_)
RECURSIVE StringifyEntries(_)
StringifyElements(elements) ==
    IF elements = <<>> THEN <<>>
    ELSE JSONStringify(Head(elements))
            \o (IF Len(elements) > 1 THEN <<",">> \o StringifyElements(Tail(elements)) ELSE <<>>)

StringifyEntries(entries) ==
    IF entries = <<>> THEN <<>>
    ELSE Quote(Head(entries).key) \o <<":">> \o JSONStringify(Head(entries).value)
            \o (IF Len(entries) > 1 THEN <<",">> \o StringifyEntries(Tail(entries)) ELSE <<>>)

JSONStringify(value) ==
    CASE value.t = "string" -> Quote(value.chars)
      [] value.t = "number" -> NumberToString(value.n)
      [] value.t = "boolean" ->
            IF value.b THEN <<"t", "r", "u", "e">> ELSE <<"f", "a", "l", "s", "e">>
      [] value.t = "null" -> <<"n", "u", "l", "l">>
      [] value.t = "array" -> <<"[">> \o StringifyElements(value.elements) \o <<"]">>
      [] value.t = "object" -> <<"{">> \o StringifyEntries(value.entries) \o <<"}">>

\* JSON.parse: each parser returns what it read and the text that follows,
\* or ok = FALSE for a SyntaxError
ParseError == [ok |-> FALSE, value |-> <<>>, rest |-> <<>>]
Parsed(value, rest) == [ok |-> TRUE, value |-> value, rest |-> rest]

\* the characters of a string, read after its opening quote
RECURSIVE ParseChars(_)
ParseChars(text) ==
    IF text = <<>> THEN ParseError
    ELSE IF Head(text) = "\"" THEN Parsed(<<>>, Tail(text))
    ELSE IF Head(text) = "\\"
         THEN IF Len(text) >= 2 /\ text[2] \in {"\"", "\\", "/"}
              THEN LET more == ParseChars(SubSeq(text, 3, Len(text)))
                   IN IF more.ok THEN Parsed(<<text[2]>> \o more.value, more.rest) ELSE ParseError
              ELSE ParseError
    ELSE LET more == ParseChars(Tail(text))
         IN IF more.ok THEN Parsed(<<Head(text)>> \o more.value, more.rest) ELSE ParseError

DigitValue(c) == CHOOSE d \in 0..9 : Digits[d + 1] = c
IsDigit(c) == \E d \in 0..9 : Digits[d + 1] = c

\* the digits of a number, read after the digits that gave n
RECURSIVE ParseDigits(_, _)
ParseDigits(n, text) ==
    IF text # <<>> /\ IsDigit(Head(text))
    THEN ParseDigits(10 * n + DigitValue(Head(text)), Tail(text))
    ELSE Parsed(JsonNumber(n), text)

RECURSIVE ParseValue(_)
RECURSIVE ParseElements(_, _)
RECURSIVE ParseEntries(_, _)
\* the elements of an array, read after "[" or after a comma
ParseElements(read, text) ==
    LET item == ParseValue(text)
    IN IF ~item.ok \/ item.rest = <<>> THEN ParseError
       ELSE IF Head(item.rest) = ","
            THEN ParseElements(Append(read, item.value), Tail(item.rest))
       ELSE IF Head(item.rest) = "]"
            THEN Parsed(JsonArray(Append(read, item.value)), Tail(item.rest))
       ELSE ParseError

\* the entries of an object, read after "{" or after a comma
ParseEntries(read, text) ==
    IF text = <<>> \/ Head(text) # "\"" THEN ParseError
    ELSE LET key == ParseChars(Tail(text))
         IN IF ~key.ok \/ key.rest = <<>> \/ Head(key.rest) # ":" THEN ParseError
            ELSE LET value == ParseValue(Tail(key.rest))
                     entry == [key |-> key.value, value |-> value.value]
                 IN IF ~value.ok \/ value.rest = <<>> THEN ParseError
                    ELSE IF Head(value.rest) = ","
                         THEN ParseEntries(Append(read, entry), Tail(value.rest))
                    ELSE IF Head(value.rest) = "}"
                         THEN Parsed(JsonObject(Append(read, entry)), Tail(value.rest))
                    ELSE ParseError

ParseValue(text) ==
    IF text = <<>> THEN ParseError
    ELSE IF Head(text) = "\""
         THEN LET chars == ParseChars(Tail(text))
              IN IF chars.ok THEN Parsed(JsonString(chars.value), chars.rest) ELSE ParseError
    ELSE IF Head(text) = "0" THEN Parsed(JsonNumber(0), Tail(text))
    ELSE IF IsDigit(Head(text)) THEN ParseDigits(DigitValue(Head(text)), Tail(text))
    ELSE IF startsWith(text, <<"t", "r", "u", "e">>)
         THEN Parsed(JsonBoolean(TRUE), SubSeq(text, 5, Len(text)))
    ELSE IF startsWith(text, <<"f", "a", "l", "s", "e">>)
         THEN Parsed(JsonBoolean(FALSE), SubSeq(text, 6, Len(text)))
    ELSE IF startsWith(text, <<"n", "u", "l", "l">>)
         THEN Parsed(JsonNull, SubSeq(text, 5, Len(text)))
    ELSE IF Head(text) = "["
         THEN IF Len(text) >= 2 /\ text[2] = "]"
              THEN Parsed(JsonArray(<<>>), SubSeq(text, 3, Len(text)))
              ELSE ParseElements(<<>>, Tail(text))
    ELSE IF Head(text) = "{"
         THEN IF Len(text) >= 2 /\ text[2] = "}"
              THEN Parsed(JsonObject(<<>>), SubSeq(text, 3, Len(text)))
              ELSE ParseEntries(<<>>, Tail(text))
    ELSE ParseError

\* JSON.parse(text): Some(value), or None for a SyntaxError
JSONParse(text) ==
    LET whole == ParseValue(text)
    IN IF whole.ok /\ whole.rest = <<>> THEN Some(whole.value) ELSE None

\* <script type="application/ld+json">
OpenTag ==
    <<"<", "s", "c", "r", "i", "p", "t", " ", "t", "y", "p", "e",
      "=", "\"", "a", "p", "p", "l", "i", "c", "a", "t", "i", "o",
      "n", "/", "l", "d", "+", "j", "s", "o", "n", "\"", ">">>

\* </script>
CloseTag ==
    <<"<", "/", "s", "c", "r", "i", "p", "t", ">">>

\* jsonLdScript(data)
jsonLdScript(data) ==
    LET json == JSONStringify(data)
    IN OpenTag \o json \o CloseTag

\* a component that passes the whole script tag string as its inner HTML
JsonLdWrapped(props) ==
    [type |-> "script",
     props |-> [type |-> "application/ld+json",
                dangerouslySetInnerHTML |-> [html |-> jsonLdScript(props.data)]]]

\* JsonLd({ data }): the element React.createElement("script", ...) returns;
\* html is the __html key
JsonLd(props) ==
    [type |-> "script",
     props |-> [type |-> "application/ld+json",
                dangerouslySetInnerHTML |-> [html |-> JSONStringify(props.data)]]]

(***************************************************************************)
(* The inputs: SEOConfig and SEOProps records                              *)
(***************************************************************************)
Texts == {<<>>, <<"a">>, <<"b">>}           \* titles, names, separators, image URLs
UrlChars == {"a", ":", "/"}
Urls == StrOver(UrlChars, MaxUrlLen)        \* base URLs
PathChars == {"/", "p"}
Paths == StrOver(PathChars, MaxPathLen)     \* page paths
KeywordLists == StrOver({<<"x">>, <<"y">>}, MaxKeywords)
Pixels == {0, 800}
Locales == {"en", "de"}
AlternatePaths == {<<>>, <<"/", "d">>, <<"h", "t", "t", "p", ":", "d">>}
AlternateMaps == UNION {[keys -> AlternatePaths] : keys \in SUBSET Locales}

\* createSEOConfig's default parameter, and defineSEO's config: {}
EmptyConfig ==
    [siteName |-> None, baseUrl |-> None, defaultImage |-> None,
     titleSeparator |-> None, locale |-> None, keywords |-> None,
     author |-> None, publisher |-> None, twitterHandle |-> None,
     alternateLocales |-> None]

\* the required title and description alone; defaultImage is the page-level
\* override of the earlier SEOProps
MinimalProps ==
    [title |-> <<"a">>, description |-> <<"d">>, image |-> None, path |-> None,
     siteName |-> None, baseUrl |-> None, noIndex |-> None, locale |-> None,
     keywords |-> None, author |-> None, imageAlt |-> None, imageWidth |-> None,
     imageHeight |-> None, type |-> None, alternates |-> None,
     structuredData |-> None, defaultImage |-> None]

TitleInputs ==
    {[config |-> [EmptyConfig EXCEPT !.siteName = gs, !.titleSeparator = sep, !.publisher = pub],
      props |-> [MinimalProps EXCEPT !.title = t, !.siteName = ps]] :
        gs \in Opt(Texts), sep \in Opt(Texts), pub \in Opt(Texts),
        t \in Texts, ps \in Opt(Texts)}

PageUrlInputs ==
    {[config |-> [EmptyConfig EXCEPT !.baseUrl = gb],
      props |-> [MinimalProps EXCEPT !.baseUrl = Some(pb), !.path = path]] :
        gb \in {None, Some(<<"a", ":">>)}, pb \in Urls, path \in Opt(Paths)}

GlobalUrlInputs ==
    {[config |-> [EmptyConfig EXCEPT !.baseUrl = gb],
      props |-> [MinimalProps EXCEPT !.path = path]] :
        gb \in Opt(Urls), path \in Opt(Paths)}

ImageInputs ==
    {[config |-> [EmptyConfig EXCEPT !.defaultImage = gd],
      props |-> [MinimalProps EXCEPT !.image = img, !.defaultImage = pd, !.imageAlt = alt,
                                     !.title = t, !.siteName = ps]] :
        gd \in Opt(Texts), img \in Opt(Texts), pd \in Opt(Texts), alt \in Opt(Texts),
        t \in Texts, ps \in Opt(Texts)}

ImageSizeInputs ==
    {[config |-> [EmptyConfig EXCEPT !.defaultImage = gd, !.siteName = gs],
      props |-> [MinimalProps EXCEPT !.image = img, !.imageWidth = w, !.imageHeight = h]] :
        gd \in Opt(Texts), gs \in Opt(Texts), img \in Opt(Texts),
        w \in Opt(Pixels), h \in Opt(Pixels)}

KeywordInputs ==
    {[config |-> [EmptyConfig EXCEPT !.keywords = gk],
      props |-> [MinimalProps EXCEPT !.keywords = pk]] :
        gk \in Opt(KeywordLists), pk \in Opt(KeywordLists)}

LocaleAuthorInputs ==
    {[config |-> [EmptyConfig EXCEPT !.locale = gl, !.author = ga],
      props |-> [MinimalProps EXCEPT !.locale = pl, !.author = pa]] :
        gl \in Opt(Texts), ga \in Opt(Texts), pl \in Opt(Texts), pa \in Opt(Texts)}

RobotsInputs ==
    {[config |-> [EmptyConfig EXCEPT !.twitterHandle = handle],
      props |-> [MinimalProps EXCEPT !.noIndex = ni, !.type = ty]] :
        handle \in Opt(Texts), ni \in Opt(BOOLEAN), ty \in Opt(Texts)}

GermanPrefix == [key \in {"de"} |-> <<"/", "d">>]
AlternateBases == {None, Some(<<>>), Some(<<"/">>), Some(<<"a", ":">>), Some(<<"a", ":", "/">>)}
AlternatePagePaths == {None, Some(<<>>), Some(<<"/">>), Some(<<"/", "p">>)}

AlternatesInputs ==
    {[config |-> [EmptyConfig EXCEPT !.baseUrl = gb, !.alternateLocales = ga],
      props |-> [MinimalProps EXCEPT !.path = path, !.alternates = pa]] :
        gb \in AlternateBases,
        ga \in {None, Some(GermanPrefix)},
        pa \in Opt(AlternateMaps),
        path \in AlternatePagePaths}

GlobalAlternatesInputs ==
    {[config |-> [EmptyConfig EXCEPT !.baseUrl = gb, !.alternateLocales = ga],
      props |-> [MinimalProps EXCEPT !.path = path]] :
        gb \in AlternateBases,
        ga \in Opt(AlternateMaps),
        path \in AlternatePagePaths}

\* structuredData: Record<string, unknown>, here JSON-LD objects of strings
StructuredPayloads ==
    UNION {[keys -> {<<"a">>}] : keys \in SUBSET {"@context", "@type"}}

StructuredDataInputs ==
    {[config |-> [EmptyConfig EXCEPT !.siteName = gs],
      props |-> [MinimalProps EXCEPT !.structuredData = sd]] :
        gs \in Opt(Texts), sd \in Opt(StructuredPayloads)}

Inputs ==
    TitleInputs \cup PageUrlInputs \cup GlobalUrlInputs \cup ImageInputs
        \cup ImageSizeInputs \cup KeywordInputs \cup LocaleAuthorInputs
        \cup RobotsInputs \cup AlternatesInputs \cup GlobalAlternatesInputs
        \cup StructuredDataInputs

\* the records given to the schema builders
SchemaTexts == {<<>>, <<"a">>}
SchemaLists == {<<>>, <<<<"x">>>>, <<<<"x">>, <<"y">>>>}
WordCounts == {0, 500}
ReadingTimes == {0, 7, 12}
TypeNames == {<<>>, <<"A", "r", "t", "i", "c", "l", "e">>}

MinimalPerson ==
    [name |-> <<"n">>, url |-> <<"u">>, jobTitle |-> None, description |-> None,
     email |-> None, image |-> None, sameAs |-> None, knowsAbout |-> None,
     location |-> None, worksFor |-> None]

MinimalArticle ==
    [headline |-> <<"h">>, description |-> <<"d">>, url |-> <<"u">>, image |-> None,
     datePublished |-> <<"2", "0", "2", "4">>, dateModified |-> None,
     authorName |-> <<"n">>, authorUrl |-> None, publisherName |-> None,
     publisherLogo |-> None, wordCount |-> None, readingTime |-> None,
     keywords |-> None, articleSection |-> None, type |-> None]

MinimalOrganization ==
    [name |-> <<"n">>, url |-> <<"u">>, logo |-> None, description |-> None,
     sameAs |-> None, email |-> None, telephone |-> None]

PersonInputs ==
    {[kind |-> "person",
      props |-> [MinimalPerson EXCEPT !.name = nm, !.jobTitle = jt, !.description = ds,
                                      !.email = em, !.image = img]] :
        nm \in SchemaTexts, jt \in Opt(SchemaTexts), ds \in Opt(SchemaTexts),
        em \in Opt(SchemaTexts), img \in Opt(SchemaTexts)}
    \cup
    {[kind |-> "person",
      props |-> [MinimalPerson EXCEPT !.sameAs = sa, !.knowsAbout = ka, !.location = loc,
                                      !.worksFor = wf]] :
        sa \in Opt(SchemaLists), ka \in Opt(SchemaLists), loc \in Opt(SchemaTexts),
        wf \in Opt({[name |-> <<"o">>, url |-> wu] : wu \in Opt(SchemaTexts)})}

ArticleInputs ==
    {[kind |-> "article",
      props |-> [MinimalArticle EXCEPT !.type = ty, !.url = url, !.image = img,
                                       !.dateModified = dm, !.authorUrl = au]] :
        ty \in Opt(TypeNames), url \in SchemaTexts, img \in Opt(SchemaTexts),
        dm \in Opt(SchemaTexts), au \in Opt(SchemaTexts)}
    \cup
    {[kind |-> "article",
      props |-> [MinimalArticle EXCEPT !.publisherName = pn, !.publisherLogo = pl,
                                       !.wordCount = wc, !.readingTime = rt]] :
        pn \in Opt(SchemaTexts), pl \in Opt(SchemaTexts),
        wc \in Opt(WordCounts), rt \in Opt(ReadingTimes)}
    \cup
    {[kind |-> "article",
      props |-> [MinimalArticle EXCEPT !.keywords = kw, !.articleSection = sec]] :
        kw \in Opt(SchemaLists), sec \in Opt(SchemaTexts)}

OrganizationInputs ==
    {[kind |-> "organization",
      props |-> [MinimalOrganization EXCEPT !.logo = lg, !.description = ds, !.sameAs = sa,
                                            !.email = em, !.telephone = tel]] :
        lg \in Opt(SchemaTexts), ds \in Opt(SchemaTexts), sa \in Opt(SchemaLists),
        em \in Opt(SchemaTexts), tel \in Opt(SchemaTexts)}

SchemaInputs == PersonInputs \cup ArticleInputs \cup OrganizationInputs

\* the payloads given to jsonLdScript and JsonLd: records and lists of records
JsonChars == {"a", "\"", "\\", "<"}
\* short strings, and one that holds a closing script tag
JsonTexts == StrOver(JsonChars, MaxJsonLen) \cup {CloseTag}
JsonKeys == {<<"k">>, <<"\"">>}
JsonScalars ==
    {JsonString(chars) : chars \in JsonTexts}
        \cup {JsonNumber(n) : n \in {0, 7, 12}}
        \cup {JsonBoolean(b) : b \in BOOLEAN}
        \cup {JsonNull}

FlatRecords ==
    {JsonObject(<<>>)}
        \cup {JsonObject(<<[key |-> k, value |-> v]>>) : k \in JsonKeys, v \in JsonScalars}

TwoKeyRecords ==
    {JsonObject(<<[key |-> <<"@", "t">>, value |-> JsonString(ty)], [key |-> <<"k">>, value |-> v]>>) :
        ty \in {<<"a">>, <<"<">>}, v \in {JsonString(<<"\"">>), JsonNumber(12), JsonNull}}

NestedRecords ==
    {JsonObject(<<[key |-> <<"k">>, value |-> inner]>>) :
        inner \in {JsonArray(<<>>),
                   JsonArray(<<JsonString(<<"\\">>), JsonNumber(7)>>),
                   JsonObject(<<[key |-> <<"k">>, value |-> JsonBoolean(TRUE)]>>)}}

JsonRecords == FlatRecords \cup TwoKeyRecords \cup NestedRecords

JsonLists ==
    {JsonArray(records) :
        records \in StrOver({JsonObject(<<>>),
                             JsonObject(<<[key |-> <<"k">>, value |-> JsonString(<<"a">>)]>>),
                             JsonObject(<<[key |-> <<"k">>, value |-> JsonNumber(0)]>>)}, 2)}

JsonPayloads == JsonRecords \cup JsonLists

(***************************************************************************)
(* The operations                                                          *)
(***************************************************************************)
\* the caller holds either the records for the metadata builder or the
\* props for one schema builder
Init ==
    /\ \/ /\ \E i \in Inputs :
                /\ globalConfig = i.config
                /\ pageProps = i.props
          /\ schemaProps = None
          /\ jsonLdData = None
       \/ /\ globalConfig = EmptyConfig
          /\ pageProps = MinimalProps
          /\ \E j \in SchemaInputs : schemaProps = Some(j)
          /\ jsonLdData = None
       \/ /\ globalConfig = EmptyConfig
          /\ pageProps = MinimalProps
          /\ schemaProps = None
          /\ \E payload \in JsonPayloads : jsonLdData = Some(payload)
    /\ seo = None
    /\ lastCall = None
    /\ outcome = "none"
    /\ metadata = None
    /\ schema = None
    /\ scriptTag = None
    /\ element = None

\* the call buildMetadata(props, config) made by the entry point fn
Call(fn, props, config) ==
    LET r == buildMetadata(props, config)
    IN /\ lastCall' = Some([fn |-> fn, props |-> props, config |-> config])
       /\ outcome' = r.status
       /\ metadata' = IF r.status = "returned" THEN Some(r.value) ELSE None

\* createSEOConfig(config): the returned function closes over config
CreateSEOConfig ==
    /\ seo' = Some(globalConfig)
    /\ UNCHANGED <<globalConfig, pageProps, lastCall, outcome, metadata, schemaProps, schema,
                 jsonLdData, scriptTag, element>>

\* createSEOConfig(): the parameter defaults to {}
CreateSEOConfigDefault ==
    /\ seo' = Some(EmptyConfig)
    /\ UNCHANGED <<globalConfig, pageProps, lastCall, outcome, metadata, schemaProps, schema,
                 jsonLdData, scriptTag, element>>

\* a returned function that keeps the keywords of the props it saw before
ConfiguredDefineSEORemembering ==
    /\ seo # None
    /\ LET earlier == IF lastCall # None THEN lastCall[1].props ELSE pageProps
           merged == [pageProps EXCEPT !.keywords = Coalesce(pageProps.keywords, earlier.keywords)]
       IN Call("configured", merged, seo[1])
    /\ UNCHANGED <<globalConfig, pageProps, seo, schemaProps, schema,
                 jsonLdData, scriptTag, element>>

\* the function returned by createSEOConfig, applied to the page props
ConfiguredDefineSEO ==
    /\ seo # None
    /\ Call("configured", pageProps, seo[1])
    /\ UNCHANGED <<globalConfig, pageProps, seo, schemaProps, schema,
                 jsonLdData, scriptTag, element>>

\* defineSEO storing the deduplicated keyword list back into props.keywords
DefineSEODedupInPlace ==
    /\ Call("defineSEO", pageProps, EmptyConfig)
    /\ pageProps' = [pageProps EXCEPT !.keywords =
                        IF pageProps.keywords # None
                        THEN Some(SetOrder(pageProps.keywords[1]))
                        ELSE None]
    /\ UNCHANGED <<globalConfig, seo, schemaProps, schema,
                 jsonLdData, scriptTag, element>>

\* the standalone defineSEO(props)
DefineSEO ==
    /\ Call("defineSEO", pageProps, EmptyConfig)
    /\ UNCHANGED <<globalConfig, pageProps, seo, schemaProps, schema,
                 jsonLdData, scriptTag, element>>

\* personSchema(props)
PersonSchema ==
    /\ schemaProps # None
    /\ schemaProps[1].kind = "person"
    /\ schema' = Some(personSchema(schemaProps[1].props))
    /\ UNCHANGED <<globalConfig, pageProps, seo, lastCall, outcome, metadata, schemaProps,
                 jsonLdData, scriptTag, element>>

\* articleSchema(props)
ArticleSchema ==
    /\ schemaProps # None
    /\ schemaProps[1].kind = "article"
    /\ schema' = Some(articleSchema(schemaProps[1].props))
    /\ UNCHANGED <<globalConfig, pageProps, seo, lastCall, outcome, metadata, schemaProps,
                 jsonLdData, scriptTag, element>>

\* organizationSchema(props)
OrganizationSchema ==
    /\ schemaProps # None
    /\ schemaProps[1].kind = "organization"
    /\ schema' = Some(organizationSchema(schemaProps[1].props))
    /\ UNCHANGED <<globalConfig, pageProps, seo, lastCall, outcome, metadata, schemaProps,
                 jsonLdData, scriptTag, element>>

\* jsonLdScript(data)
JsonLdScript ==
    /\ jsonLdData # None
    /\ scriptTag' = Some(jsonLdScript(jsonLdData[1]))
    /\ UNCHANGED <<globalConfig, pageProps, seo, lastCall, outcome, metadata, schemaProps, schema,
                   jsonLdData, element>>

\* <JsonLd data={data} />
RenderJsonLd ==
    /\ jsonLdData # None
    /\ element' = Some(JsonLd([data |-> jsonLdData[1]]))
    /\ UNCHANGED <<globalConfig, pageProps, seo, lastCall, outcome, metadata, schemaProps, schema,
                   jsonLdData, scriptTag>>

Next ==
    \/ CreateSEOConfig
    \/ CreateSEOConfigDefault
    \/ ConfiguredDefineSEO
    \/ DefineSEO
    \/ PersonSchema
    \/ ArticleSchema
    \/ OrganizationSchema
    \/ JsonLdScript
    \/ RenderJsonLd

Spec == Init /\ [][Next]_vars

(***************************************************************************)
(* One returned function reused for several pages: after a call the caller *)
(* turns to the props of another page and calls again.                     *)
(***************************************************************************)
OtherPages ==
    {[MinimalProps EXCEPT !.title = <<"c">>, !.keywords = pk] :
        pk \in {None, Some(<< <<"y">> >>)}}

InitPages ==
    /\ \E i \in KeywordInputs :
          /\ globalConfig = i.config
          /\ pageProps = i.props
    /\ schemaProps = None
    /\ seo = None
    /\ lastCall = None
    /\ outcome = "none"
    /\ metadata = None
    /\ schema = None
    /\ jsonLdData = None
    /\ scriptTag = None
    /\ element = None

\* the caller takes the props record of the next page
TurnPage ==
    /\ lastCall # None
    /\ \E next \in OtherPages :
          /\ next # pageProps
          /\ pageProps' = next
    /\ UNCHANGED <<globalConfig, seo, lastCall, outcome, metadata, schemaProps, schema,
                 jsonLdData, scriptTag, element>>

NextPages ==
    \/ CreateSEOConfig
    \/ CreateSEOConfigDefault
    \/ ConfiguredDefineSEO
    \/ DefineSEO
    \/ TurnPage

SpecPages == InitPages /\ [][NextPages]_vars

\* the arguments and the result of the last call that returned
Returned == outcome = "returned"
P == lastCall[1].props
C == lastCall[1].config
M == metadata[1]

\* the props and the result of the schema builder named kind, once called
Built(kind) == schema # None /\ schemaProps[1].kind = kind
SP == schemaProps[1].props
S == schema[1]

(***************************************************************************)
(* The claims.  "A value resolves" means that the fallback chain yields a  *)
(* string other than "": the builder tests the resolved values for         *)
(* truthiness, and an empty value is omitted like an absent one.           *)
(***************************************************************************)
\* page value if provided, else the global one
PageElseGlobal(pageValue, globalValue) ==
    IF pageValue # None THEN pageValue ELSE globalValue

\* alternates.canonical of the output, None when the key or the block is absent
CanonicalOut == IF M.alternates = None THEN None ELSE M.alternates[1].canonical

\* C1: the title is "{title} {separator} {siteName}" when the resolved site
\* name (page value if provided, else global) is defined and non-empty, and
\* the bare page title otherwise; the separator is the global titleSeparator,
\* or "|" when none is configured.
C1_TitleAssembly ==
    Returned =>
        LET name == PageElseGlobal(P.siteName, C.siteName)
            sep == IF C.titleSeparator = None THEN <<"|">> ELSE C.titleSeparator[1]
        IN M.title = IF name # None /\ name[1] # <<>>
                     THEN P.title \o <<" ">> \o sep \o <<" ">> \o name[1]
                     ELSE P.title

C1_Witness ==
    /\ Returned
    /\ P.title = <<"b">>
    /\ P.siteName = None
    /\ C.siteName = Some(<<"a">>)
    /\ C.titleSeparator = Some(<<"b">>)
    /\ M.title = <<"b", " ", "b", " ", "a">>

\* C2: with the page siteName given as "", the title is exactly the bare page
\* title even if the global config has a non-empty siteName.
C2_EmptySiteNameSuppresses ==
    (Returned /\ P.siteName = Some(<<>>)) => M.title = P.title

C2_Witness ==
    /\ Returned
    /\ P.siteName = Some(<<>>)
    /\ Truthy(C.siteName)
    /\ P.title = <<"a">>
    /\ M.title = <<"a">>

\* C3: whenever a base URL resolves, the canonical URL is the base URL with
\* one trailing slash removed, followed by "/" and the page path with one
\* leading slash removed when that trimmed path is non-empty, and by nothing
\* when the path is omitted, empty or "/".  The canonical is emitted as
\* alternates.canonical and openGraph.url; an empty canonical is an omitted key.
C3_Canonical ==
    (Returned /\ Truthy(PageElseGlobal(P.baseUrl, C.baseUrl))) =>
        LET base == PageElseGlobal(P.baseUrl, C.baseUrl)[1]
            bare == IF base[Len(base)] = "/" THEN SubSeq(base, 1, Len(base) - 1) ELSE base
            path == IF P.path = None THEN <<>> ELSE P.path[1]
            trimmed == IF path # <<>> /\ Head(path) = "/" THEN Tail(path) ELSE path
            expected == IF trimmed = <<>> THEN bare ELSE bare \o <<"/">> \o trimmed
        IN /\ CanonicalOut = (IF expected = <<>> THEN None ELSE Some(expected))
           /\ M.openGraph.url = CanonicalOut

C3_Witness ==
    /\ Returned
    /\ PageElseGlobal(P.baseUrl, C.baseUrl) = Some(<<"a", ":", "/", "/">>)
    /\ P.path = Some(<<"/", "p">>)
    /\ CanonicalOut = Some(<<"a", ":", "/", "/", "p">>)

\* C4: the builder returns a metadata record without throwing for every
\* well-typed input: every string given as base URL is accepted as an opaque
\* value and is not validated for URL well-formedness.
C4_NeverThrows == outcome # "threw"

\* C5: the keyword list is the global list followed by the page list with
\* every repeated keyword removed, each keyword at the position of its first
\* occurrence; the keywords field is absent when the merged list is empty.
C5_Keywords ==
    Returned =>
        LET merged == (IF C.keywords = None THEN <<>> ELSE C.keywords[1])
                         \o (IF P.keywords = None THEN <<>> ELSE P.keywords[1])
            firsts == {i \in 1..Len(merged) : \A j \in 1..(i - 1) : merged[j] # merged[i]}
            nth(k) == CHOOSE i \in firsts : Cardinality({j \in firsts : j < i}) = k - 1
            expected == [k \in 1..Cardinality(firsts) |-> merged[nth(k)]]
        IN M.keywords = (IF expected = <<>> THEN None ELSE Some(expected))

C5_Witness ==
    /\ Returned
    /\ C.keywords = Some(<< <<"x">>, <<"y">> >>)
    /\ P.keywords = Some(<< <<"y">>, <<"x">> >>)
    /\ M.keywords = Some(<< <<"x">>, <<"y">> >>)

C8_PageWins ==
    Returned =>
        LET base == PageElseGlobal(P.baseUrl, C.baseUrl)
            img == PageElseGlobal(P.image, C.defaultImage)
            loc == PageElseGlobal(P.locale, C.locale)
            auth == PageElseGlobal(P.author, C.author)
            bare == IF Truthy(base) /\ base[1][Len(base[1])] = "/"
                    THEN Some(SubSeq(base[1], 1, Len(base[1]) - 1))
                    ELSE base
        IN /\ M.metadataBase = (IF Truthy(bare) THEN Some([input |-> bare[1]]) ELSE None)
           /\ IF Truthy(base)
              THEN CanonicalOut # None => startsWith(CanonicalOut[1], bare[1])
              ELSE CanonicalOut = None /\ M.openGraph.url = None
           /\ IF Truthy(img)
              THEN /\ M.openGraph.images # None
                   /\ M.openGraph.images[1][1].url = img[1]
                   /\ M.twitter.images = Some(<<img[1]>>)
              ELSE M.openGraph.images = None /\ M.twitter.images = None
           /\ M.openGraph.locale = (IF Truthy(loc) THEN loc ELSE None)
           /\ M.creator = (IF Truthy(auth) THEN auth ELSE None)
           /\ M.authors = (IF Truthy(auth) THEN Some(<<[name |-> auth[1]]>>) ELSE None)

C8_Witness ==
    /\ Returned
    /\ P.locale = Some(<<>>)
    /\ Truthy(C.locale)
    /\ M.openGraph.locale = None

ResolvedBase == PageElseGlobal(P.baseUrl, C.baseUrl)
BareBase ==
    LET base == ResolvedBase[1]
    IN IF base # <<>> /\ base[Len(base)] = "/" THEN SubSeq(base, 1, Len(base) - 1) ELSE base

\* alternates.languages of the output, None when the key or the block is absent
LanguagesOut == IF M.alternates = None THEN None ELSE M.alternates[1].languages

\* C11: when no base URL resolves (neither page nor global), the output has no
\* canonical URL (neither alternates.canonical nor openGraph.url) and no
\* metadataBase.
C11_NoBaseNoCanonical ==
    (Returned /\ ~Truthy(ResolvedBase)) =>
        /\ CanonicalOut = None
        /\ M.openGraph.url = None
        /\ M.metadataBase = None

C11_Witness ==
    /\ Returned
    /\ P.baseUrl = None
    /\ C.baseUrl = None
    /\ P.path = Some(<<"/", "p">>)
    /\ C.alternateLocales # None
    /\ CanonicalOut = None
    /\ M.metadataBase = None

\* C12: whenever a non-empty base URL is resolved, the output carries
\* metadataBase built from that base URL with one trailing slash removed;
\* hence no output has a canonical URL without a metadataBase.
C12_MetadataBaseForEveryBase ==
    Returned =>
        /\ Truthy(ResolvedBase) => M.metadataBase = Some([input |-> BareBase])
        /\ CanonicalOut # None => M.metadataBase # None

\* C13: when no base URL resolves and the page gives no alternates map, the
\* output has no alternates field at all, whatever the global alternateLocales
\* map and the page path are.
C13_NoAlternatesField ==
    (Returned /\ ~Truthy(ResolvedBase) /\ P.alternates = None) => M.alternates = None

C13_Witness ==
    /\ Returned
    /\ ~Truthy(ResolvedBase)
    /\ P.alternates = None
    /\ C.alternateLocales # None
    /\ DOMAIN C.alternateLocales[1] # {}
    /\ P.path = Some(<<"/", "p">>)
    /\ M.alternates = None

\* C14: the alternates block is omitted whenever both of its sub-fields are
\* empty: in every output that has an alternates field, that field has a
\* non-empty canonical URL or a language map with at least one entry.
C14_AlternatesNeverEmpty ==
    (Returned /\ M.alternates # None) =>
        \/ Truthy(M.alternates[1].canonical)
        \/ /\ M.alternates[1].languages # None
           /\ DOMAIN M.alternates[1].languages[1] # {}

\* C15: when the page gives an alternates map, the output language map has
\* exactly the same locale keys, and each value is the page value unchanged
\* when it starts with "http", the normalized base URL immediately followed by
\* the page value when a base URL is resolved, and the page value unchanged
\* when no base URL is resolved.
C15_PageAlternates ==
    (Returned /\ P.alternates # None) =>
        /\ LanguagesOut # None
        /\ DOMAIN LanguagesOut[1] = DOMAIN P.alternates[1]
        /\ \A key \in DOMAIN P.alternates[1] :
              LET value == P.alternates[1][key]
              IN LanguagesOut[1][key] =
                    IF Len(value) >= 4 /\ SubSeq(value, 1, 4) = <<"h", "t", "t", "p">>
                    THEN value
                    ELSE IF Truthy(ResolvedBase) THEN BareBase \o value ELSE value

C15_Witness ==
    /\ Returned
    /\ ResolvedBase = Some(<<"a", ":", "/">>)
    /\ P.alternates # None
    /\ DOMAIN P.alternates[1] = {"en", "de"}
    /\ P.alternates[1]["en"] = <<"h", "t", "t", "p", ":", "d">>
    /\ P.alternates[1]["de"] = <<"/", "d">>
    /\ LanguagesOut # None
    /\ LanguagesOut[1]["en"] = <<"h", "t", "t", "p", ":", "d">>
    /\ LanguagesOut[1]["de"] = <<"a", ":", "/", "d">>

\* C16: when the page gives no alternates map and the global config has a
\* locale-to-prefix map, a language map is produced exactly when both a base
\* URL and a page path are resolved, and then each locale maps to
\* normalizedBase + prefix + ("/" + path without its leading slash, when that
\* trimmed path is non-empty); with the page path omitted or empty no
\* language map is produced.
C16_GlobalAlternates ==
    (Returned /\ P.alternates = None /\ C.alternateLocales # None) =>
        /\ LanguagesOut # None <=> (Truthy(ResolvedBase) /\ Truthy(P.path))
        /\ LanguagesOut # None =>
              /\ DOMAIN LanguagesOut[1] = DOMAIN C.alternateLocales[1]
              /\ \A key \in DOMAIN C.alternateLocales[1] :
                    LET trimmed == IF Head(P.path[1]) = "/" THEN Tail(P.path[1]) ELSE P.path[1]
                    IN LanguagesOut[1][key] =
                          BareBase \o C.alternateLocales[1][key]
                              \o (IF trimmed # <<>> THEN <<"/">> \o trimmed ELSE <<>>)

\* C17: the publisher is the global publisher when one is configured, else
\* the resolved site name; the publisher field is absent when neither is
\* available (an empty value is omitted like an absent one).
C17_Publisher ==
    Returned =>
        LET resolved == IF C.publisher # None
                        THEN C.publisher
                        ELSE PageElseGlobal(P.siteName, C.siteName)
        IN M.publisher = (IF Truthy(resolved) THEN resolved ELSE None)

C17_Witness ==
    /\ Returned
    /\ C.publisher = None
    /\ P.siteName = None
    /\ C.siteName = Some(<<"b">>)
    /\ M.publisher = Some(<<"b">>)

\* C18: when the page gives a structuredData payload, the returned metadata
\* contains it, as a serialised string, under other["structured-data"].
C18_StructuredData ==
    (Returned /\ P.structuredData # None) =>
        /\ M.other # None
        /\ "structured-data" \in DOMAIN M.other[1]
        /\ M.other[1]["structured-data"] = [serialised |-> P.structuredData[1]]

\* C20: no operation mutates its inputs: over every step (a call of defineSEO,
\* of createSEOConfig, of the function it returned or of a schema builder)
\* the global config record, the page props record (with its keyword list and
\* alternates map) and the schema props record are unchanged, and a builder
\* call leaves the config bound by createSEOConfig unchanged; the clean-up of
\* an empty alternates block changes the returned metadata only.
C20_InputsUnchanged ==
    [][/\ globalConfig' = globalConfig
       /\ pageProps' = pageProps
       /\ schemaProps' = schemaProps
       /\ (lastCall' # lastCall \/ metadata' # metadata \/ schema' # schema) => seo' = seo]_vars

\* a configured call that deduplicated the keywords and deleted the empty
\* alternates block, with the caller's records still as they were passed
C20_Witness ==
    /\ Returned
    /\ lastCall[1].fn = "configured"
    /\ P = pageProps
    /\ C = globalConfig
    /\ seo = Some(globalConfig)
    /\ C.keywords = Some(<< <<"x">> >>)
    /\ P.keywords = Some(<< <<"x">>, <<"x">> >>)
    /\ M.keywords = Some(<< <<"x">> >>)
    /\ P.alternates = None
    /\ M.alternates = None

\* C21 to C30

\* C22: the OpenGraph type of the output is the page's type value when the
\* page provides one (any string, the empty one included) and "website"
\* otherwise.
C22_OpenGraphType ==
    Returned =>
        M.openGraph.type = (IF P.type # None
                            THEN P.type[1]
                            ELSE <<"w", "e", "b", "s", "i", "t", "e">>)

C22_Witness ==
    /\ Returned
    /\ P.type = Some(<<>>)
    /\ M.openGraph.type = <<>>

\* C28: in every output, title, openGraph.title and twitter.title are equal;
\* description, openGraph.description and twitter.description are equal to
\* the page description; and openGraph.url is present exactly when
\* alternates.canonical is present, with the same value.
C28_MirroredFields ==
    Returned =>
        /\ M.title = M.openGraph.title
        /\ M.title = M.twitter.title
        /\ M.description = P.description
        /\ M.openGraph.description = P.description
        /\ M.twitter.description = P.description
        /\ M.openGraph.url = CanonicalOut

C28_Witness ==
    /\ Returned
    /\ ResolvedBase = Some(<<"a", ":">>)
    /\ P.path = Some(<<"/", "p">>)
    /\ M.openGraph.url = Some(<<"a", ":", "/", "p">>)
    /\ CanonicalOut = Some(<<"a", ":", "/", "p">>)
    /\ M.twitter.title = P.title
    /\ M.openGraph.description = <<"d">>

\* C30: twitter.creator and twitter.site are either both present and both
\* equal to the global twitterHandle (when a non-empty handle is configured)
\* or both absent; authors and creator are either both present, with authors
\* being the single entry {name: resolved author} and creator equal to that
\* author, or both absent.
C30_PairedFields ==
    Returned =>
        LET auth == PageElseGlobal(P.author, C.author)
        IN /\ IF Truthy(C.twitterHandle)
              THEN M.twitter.creator = C.twitterHandle /\ M.twitter.site = C.twitterHandle
              ELSE M.twitter.creator = None /\ M.twitter.site = None
           /\ IF Truthy(auth)
              THEN M.authors = Some(<<[name |-> auth[1]]>>) /\ M.creator = auth
              ELSE M.authors = None /\ M.creator = None

C30_Witness ==
    /\ Returned
    /\ C.twitterHandle = Some(<<"a">>)
    /\ M.twitter.creator = Some(<<"a">>)
    /\ M.twitter.site = Some(<<"a">>)
    /\ M.authors = None
    /\ M.creator = None

\* C23: personSchema always emits @context "https://schema.org", @type
\* "Person", name and url, and omits each optional key (jobTitle,
\* description, email, image, sameAs, knowsAbout, address, worksFor) entirely
\* whenever its source value is absent or an empty list, so no emitted key
\* ever holds an undefined value or an empty list.
C23_PersonSchema ==
    Built("person") =>
        /\ S.context = "https://schema.org"
        /\ S.type = "Person"
        /\ S.name = SP.name
        /\ S.url = SP.url
        /\ SP.jobTitle = None => S.jobTitle = None
        /\ SP.description = None => S.description = None
        /\ SP.email = None => S.email = None
        /\ SP.image = None => S.image = None
        /\ (SP.sameAs = None \/ SP.sameAs = Some(<<>>)) => S.sameAs = None
        /\ (SP.knowsAbout = None \/ SP.knowsAbout = Some(<<>>)) => S.knowsAbout = None
        /\ SP.location = None => S.address = None
        /\ SP.worksFor = None => S.worksFor = None
        /\ S.sameAs # Some(<<>>)
        /\ S.knowsAbout # Some(<<>>)
        /\ S.worksFor # None => (SP.worksFor[1].url = None => S.worksFor[1].url = None)

C23_Witness ==
    /\ Built("person")
    /\ SP.sameAs = Some(<<>>)
    /\ SP.knowsAbout = Some(<< <<"x">> >>)
    /\ SP.worksFor # None
    /\ SP.location = None
    /\ S.sameAs = None
    /\ S.knowsAbout = Some(<< <<"x">> >>)
    /\ S.worksFor # None
    /\ S.address = None

\* C24: for every article input that provides a reading time of n minutes,
\* articleSchema emits timeRequired equal to the literal "PT{n}M";
\* timeRequired is absent only when no reading time is provided.
C24_ReadingTime ==
    Built("article") =>
        /\ SP.readingTime # None =>
              S.timeRequired = Some(<<"P", "T">> \o NumberToString(SP.readingTime[1]) \o <<"M">>)
        /\ S.timeRequired = None => SP.readingTime = None

\* C25: in every articleSchema output, mainEntityOfPage equals url, both
\* equal the input URL, datePublished equals the input publication date
\* string unmodified, and @type is the input type override when given (any
\* string) and "BlogPosting" otherwise.
C25_ArticleCore ==
    Built("article") =>
        /\ S.mainEntityOfPage = S.url
        /\ S.url = SP.url
        /\ S.datePublished = SP.datePublished
        /\ S.type = (IF SP.type # None
                     THEN SP.type[1]
                     ELSE <<"B", "l", "o", "g", "P", "o", "s", "t", "i", "n", "g">>)

C25_Witness ==
    /\ Built("article")
    /\ SP.type = Some(<<"A", "r", "t", "i", "c", "l", "e">>)
    /\ SP.url = <<"a">>
    /\ S.type = <<"A", "r", "t", "i", "c", "l", "e">>
    /\ S.mainEntityOfPage = <<"a">>
    /\ S.datePublished = <<"2", "0", "2", "4">>

\* C29: articleSchema always emits an author record of @type Person with the
\* author name, carrying a url only when an author URL is given; it emits a
\* publisher record of @type Organization exactly when a (non-empty)
\* publisher name is given, carrying a logo only when a publisher logo is
\* given, so a publisher logo given without a publisher name produces no
\* publisher key at all.
C29_AuthorAndPublisher ==
    Built("article") =>
        /\ S.author.type = "Person"
        /\ S.author.name = SP.authorName
        /\ S.author.url # None => (Truthy(SP.authorUrl) /\ S.author.url = SP.authorUrl)
        /\ S.publisher # None <=> Truthy(SP.publisherName)
        /\ S.publisher # None =>
              /\ S.publisher[1].type = "Organization"
              /\ S.publisher[1].name = SP.publisherName[1]
              /\ S.publisher[1].logo # None =>
                    (Truthy(SP.publisherLogo) /\ S.publisher[1].logo = SP.publisherLogo)
        /\ (Truthy(SP.publisherLogo) /\ SP.publisherName = None) => S.publisher = None

C29_Witness ==
    /\ Built("article")
    /\ SP.publisherLogo = Some(<<"a">>)
    /\ SP.publisherName = None
    /\ S.publisher = None
    /\ S.author.name = <<"n">>

\* the outcome and the metadata of building directly from (config, props)
DirectOutcome(props, config) == buildMetadata(props, config).status
DirectMetadata(props, config) ==
    IF buildMetadata(props, config).status = "returned"
    THEN Some(buildMetadata(props, config).value)
    ELSE None

\* C21: each call of the function returned by createSEOConfig(config) returns
\* the same metadata as building directly from (config, that call's props),
\* whatever props the earlier calls had; and the standalone defineSEO(props)
\* returns the same metadata as createSEOConfig({})(props) and
\* createSEOConfig()(props), that is, as building from ({}, props).
C21_FactoryEquivalence ==
    [][lastCall' # lastCall =>
          /\ lastCall'[1].fn = "configured" =>
                /\ outcome' = DirectOutcome(pageProps, seo[1])
                /\ metadata' = DirectMetadata(pageProps, seo[1])
          /\ (lastCall'[1].fn = "defineSEO" \/ seo = Some(EmptyConfig)) =>
                /\ outcome' = DirectOutcome(pageProps, EmptyConfig)
                /\ metadata' = DirectMetadata(pageProps, EmptyConfig)]_vars

\* a call of the returned function on a later page, after a call on a page
\* with other keywords
C21_Witness ==
    /\ Returned
    /\ lastCall[1].fn = "configured"
    /\ seo = Some(globalConfig)
    /\ globalConfig.keywords = Some(<< <<"x">> >>)
    /\ pageProps \in OtherPages
    /\ pageProps.keywords = None
    /\ P = pageProps
    /\ M.title = <<"c">>
    /\ M.keywords = Some(<< <<"x">> >>)

\* the text between the opening tag and the closing tag of a script tag string
Between(tag) == SubSeq(tag, Len(OpenTag) + 1, Len(tag) - Len(CloseTag))

\* C26: jsonLdScript round-trips: for every JSON-compatible record or list of
\* records, the result is exactly the opening tag
\* <script type="application/ld+json">, the JSON serialization of the input,
\* and the closing tag </script>, and parsing the text between the two tags
\* reproduces a value structurally equal to the input.
C26_RoundTrip ==
    scriptTag # None =>
        LET tag == scriptTag[1]
        IN /\ Len(tag) >= Len(OpenTag) + Len(CloseTag)
           /\ SubSeq(tag, 1, Len(OpenTag)) = OpenTag
           /\ SubSeq(tag, Len(tag) - Len(CloseTag) + 1, Len(tag)) = CloseTag
           /\ Between(tag) = JSONStringify(jsonLdData[1])
           /\ JSONParse(Between(tag)) = Some(jsonLdData[1])

C26_Witness ==
    /\ scriptTag # None
    /\ jsonLdData = Some(JsonObject(<<[key |-> <<"\"">>, value |-> JsonString(<<"\\", "<">>)]>>))
    /\ Between(scriptTag[1]) = <<"{", "\"", "\\", "\"", "\"", ":", "\"", "\\", "\\", "<", "\"", "}">>

\* C27: for every payload, the JsonLd component produces a script element of
\* type "application/ld+json" whose inner content is exactly the JSON string
\* that jsonLdScript places between its script tags for the same payload.
C27_ComponentMatchesScript ==
    /\ element # None =>
          /\ element[1].type = "script"
          /\ element[1].props.type = "application/ld+json"
    /\ (element # None /\ scriptTag # None) =>
          element[1].props.dangerouslySetInnerHTML.html = Between(scriptTag[1])

C27_Witness ==
    /\ element # None
    /\ scriptTag # None
    /\ jsonLdData = Some(JsonArray(<<JsonObject(<<>>),
                                    JsonObject(<<[key |-> <<"k">>, value |-> JsonNumber(0)]>>)>>))
    /\ element[1].props.dangerouslySetInnerHTML.html =
          <<"[", "{", "}", ",", "{", "\"", "k", "\"", ":", "0", "}", "]">>

====
